---- MODULE Spec2Model ----
(***************************************************************************)
(* KEC cable calculator (src-tauri/src/main.rs): the calculation engine    *)
(* behind the `calculate` command and the catalogue commands.              *)
(*                                                                         *)
(* Every call is a synchronous pure function of its argument and of the    *)
(* static tables, so a behaviour is one call: Init draws the call, the     *)
(* handler's action runs it to its return value.                           *)
(*                                                                         *)
(* Numbers.  The source computes in f64; the model computes the same       *)
(* expressions in exact fixed-point integers:                              *)
(*   diameters           in 1/200 mm   (6.3 mm = 1260; 10.5 * 1.25 = 2625) *)
(*   areas               in pi/160000 mm^2, so pi * (d/2)^2 is d * d       *)
(*   currents (tables)   in 1/10 A                                         *)
(*   grouping factors    in 1/100                                          *)
(*   unrounded current   in 1/1000 A  (table value * grouping factor)      *)
(*   conductor area      in 1/10 mm^2 (unrounded), 1/100 mm^2 (rounded)    *)
(*   fill percentage     as the exact ratio num / den * 100                *)
(* A rounding of the result is the rounding of the exact value, except at  *)
(* a tie, where the f64 value may fall on either side and the model admits *)
(* both neighbours.  The area comparison of recommend_conduit is exact.    *)
(* Strings the module cannot spell are written in ASCII: "1P" and "3P" are *)
(* the single-phase and three-phase system labels, "NONE" is the label of  *)
(* no ground wire, and the Korean messages and labels are in English.      *)
(***************************************************************************)
EXTENDS Integers, Sequences, FiniteSets, TLC

VARIABLES
    pc,      \* "call": the command is about to run; "done": it has returned
    call,    \* [fn, arg]: the function invoked and its argument
    ret,     \* the value returned (NoValue before the return)
    locals   \* calculate's local variables at a successful return

vars == <<pc, call, ret, locals>>

----------------------------------------------------------------------------
(* Option<T> and Result<T, String> *)

None == <<>>
Some(x) == <<x>>
NoValue == <<>>

Ok(v) == [ok |-> TRUE, value |-> v]
Err(e) == [ok |-> FALSE, err |-> e]

(* [(k, v), ...].iter().cloned().collect::<HashMap<_, _>>() *)
HashMap(pairs) ==
    [k \in {pairs[i][1] : i \in DOMAIN pairs} |->
        pairs[CHOOSE i \in DOMAIN pairs : pairs[i][1] = k][2]]

(* a literal in tenths of a millimetre as a diameter (1/200 mm) *)
Tenths(t) == t * 20

(* d * 1.15, d * 1.25, d * 1.65, d * 1.9, d * 2.1: the factor in hundredths *)
Times(d, hundredths) == (d * hundredths) \div 100

----------------------------------------------------------------------------
(* Model bounds.  Areas must stay below 2^31: the largest cable, TFR-CV    *)
(* 300 4C (93.75 mm), allows six runs.                                     *)

MaxQuantity == 5
MaxCircuits == 30
MaxAreaSteps == 150
MaxFromTop == 3

----------------------------------------------------------------------------
(* get_allowable_current_table: (two-loaded, three-loaded) in 1/10 A *)

pvc_a1 ==
  <<
    <<"1.5", 145, 135>>, <<"2.5", 195, 180>>, <<"4", 260, 240>>, <<"6", 340, 310>>,
    <<"10", 460, 420>>, <<"16", 610, 560>>, <<"25", 800, 730>>, <<"35", 990, 890>>,
    <<"50", 1190, 1080>>, <<"70", 1510, 1360>>, <<"95", 1820, 1640>>, <<"120", 2100, 1880>>,
    <<"150", 2400, 2160>>, <<"185", 2730, 2450>>, <<"240", 3210, 2860>>, <<"300", 3670, 3280>>,
    <<"400", 4240, 3790>>, <<"500", 4880, 4360>>
  >>

pvc_a2 ==
  <<
    <<"1.5", 140, 130>>, <<"2.5", 185, 175>>, <<"4", 250, 230>>, <<"6", 320, 290>>,
    <<"10", 430, 390>>, <<"16", 570, 520>>, <<"25", 750, 680>>, <<"35", 920, 830>>,
    <<"50", 1100, 990>>, <<"70", 1390, 1250>>, <<"95", 1670, 1500>>, <<"120", 1920, 1720>>,
    <<"150", 2190, 1960>>, <<"185", 2480, 2230>>, <<"240", 2910, 2610>>, <<"300", 3340, 2980>>,
    <<"400", 3860, 3450>>, <<"500", 4440, 3970>>
  >>

pvc_b1 ==
  <<
    <<"1.5", 175, 155>>, <<"2.5", 240, 210>>, <<"4", 320, 280>>, <<"6", 410, 360>>,
    <<"10", 570, 500>>, <<"16", 760, 680>>, <<"25", 1010, 890>>, <<"35", 1250, 1100>>,
    <<"50", 1510, 1340>>, <<"70", 1920, 1710>>, <<"95", 2320, 2070>>, <<"120", 2690, 2390>>,
    <<"150", 3090, 2750>>, <<"185", 3530, 3140>>, <<"240", 4150, 3690>>, <<"300", 4770, 4230>>,
    <<"400", 5550, 4900>>, <<"500", 6420, 5650>>
  >>

pvc_b2 ==
  <<
    <<"1.5", 165, 150>>, <<"2.5", 230, 200>>, <<"4", 300, 270>>, <<"6", 380, 340>>,
    <<"10", 520, 460>>, <<"16", 690, 620>>, <<"25", 900, 800>>, <<"35", 1110, 990>>,
    <<"50", 1330, 1180>>, <<"70", 1680, 1490>>, <<"95", 2010, 1790>>, <<"120", 2320, 2060>>,
    <<"150", 2650, 2360>>, <<"185", 3000, 2680>>, <<"240", 3510, 3130>>, <<"300", 4010, 3580>>,
    <<"400", 4640, 4140>>, <<"500", 5330, 4760>>
  >>

pvc_c ==
  <<
    <<"1.5", 195, 175>>, <<"2.5", 270, 240>>, <<"4", 360, 320>>, <<"6", 460, 410>>,
    <<"10", 630, 570>>, <<"16", 850, 760>>, <<"25", 1120, 960>>, <<"35", 1380, 1190>>,
    <<"50", 1680, 1440>>, <<"70", 2130, 1840>>, <<"95", 2580, 2230>>, <<"120", 2990, 2590>>,
    <<"150", 3440, 2990>>, <<"185", 3920, 3410>>, <<"240", 4610, 4030>>, <<"300", 5300, 4640>>,
    <<"400", 6140, 5450>>, <<"500", 7070, 6380>>
  >>

pvc_d1 ==
  <<
    <<"1.5", 220, 180>>, <<"2.5", 290, 240>>, <<"4", 370, 300>>, <<"6", 460, 380>>,
    <<"10", 610, 500>>, <<"16", 790, 640>>, <<"25", 1010, 820>>, <<"35", 1220, 980>>,
    <<"50", 1440, 1160>>, <<"70", 1780, 1430>>, <<"95", 2110, 1690>>, <<"120", 2400, 1920>>,
    <<"150", 2710, 2170>>, <<"185", 3040, 2430>>, <<"240", 3510, 2800>>, <<"300", 3960, 3160>>,
    <<"400", 4540, 3630>>, <<"500", 5130, 4100>>
  >>

pvc_d2 ==
  <<
    <<"1.5", 240, 190>>, <<"2.5", 320, 240>>, <<"4", 410, 330>>, <<"6", 510, 410>>,
    <<"10", 670, 540>>, <<"16", 870, 700>>, <<"25", 1120, 920>>, <<"35", 1360, 1100>>,
    <<"50", 1610, 1300>>, <<"70", 2000, 1620>>, <<"95", 2390, 1930>>, <<"120", 2730, 2200>>,
    <<"150", 3100, 2460>>, <<"185", 3490, 2780>>, <<"240", 4040, 3200>>, <<"300", 4580, 3590>>,
    <<"400", 5240, 4140>>, <<"500", 5900, 4670>>
  >>

pvc_e ==
  <<
    <<"1.5", 220, 185>>, <<"2.5", 300, 250>>, <<"4", 400, 340>>, <<"6", 510, 430>>,
    <<"10", 700, 600>>, <<"16", 940, 800>>, <<"25", 1190, 1010>>, <<"35", 1480, 1260>>,
    <<"50", 1800, 1530>>, <<"70", 2320, 1960>>, <<"95", 2820, 2380>>, <<"120", 3280, 2760>>,
    <<"150", 3790, 3190>>, <<"185", 4340, 3640>>, <<"240", 5140, 4300>>, <<"300", 5930, 4970>>,
    <<"400", 6940, 5920>>, <<"500", 8060, 7060>>
  >>

pvc_f ==
  <<
    <<"1.5", 250, 210>>, <<"2.5", 340, 280>>, <<"4", 450, 380>>, <<"6", 580, 480>>,
    <<"10", 790, 670>>, <<"16", 1050, 890>>, <<"25", 1330, 1130>>, <<"35", 1660, 1410>>,
    <<"50", 2010, 1710>>, <<"70", 2590, 2190>>, <<"95", 3150, 2660>>, <<"120", 3670, 3090>>,
    <<"150", 4240, 3570>>, <<"185", 4860, 4080>>, <<"240", 5750, 4820>>, <<"300", 6640, 5570>>,
    <<"400", 7770, 6640>>, <<"500", 9030, 7910>>
  >>

xlpe_a1 ==
  <<
    <<"1.5", 195, 170>>, <<"2.5", 260, 230>>, <<"4", 350, 310>>, <<"6", 450, 400>>,
    <<"10", 610, 540>>, <<"16", 810, 730>>, <<"25", 1060, 950>>, <<"35", 1310, 1170>>,
    <<"50", 1580, 1410>>, <<"70", 2000, 1790>>, <<"95", 2410, 2160>>, <<"120", 2780, 2490>>,
    <<"150", 3180, 2850>>, <<"185", 3620, 3240>>, <<"240", 4240, 3800>>, <<"300", 4860, 4350>>,
    <<"400", 5610, 5030>>, <<"500", 6450, 5780>>
  >>

xlpe_a2 ==
  <<
    <<"1.5", 185, 165>>, <<"2.5", 250, 220>>, <<"4", 330, 300>>, <<"6", 420, 380>>,
    <<"10", 570, 510>>, <<"16", 760, 680>>, <<"25", 990, 890>>, <<"35", 1210, 1090>>,
    <<"50", 1450, 1300>>, <<"70", 1830, 1640>>, <<"95", 2200, 1970>>, <<"120", 2530, 2270>>,
    <<"150", 2900, 2590>>, <<"185", 3290, 2950>>, <<"240", 3860, 3460>>, <<"300", 4420, 3960>>,
    <<"400", 5110, 4580>>, <<"500", 5870, 5260>>
  >>

xlpe_b1 ==
  <<
    <<"1.5", 230, 200>>, <<"2.5", 310, 280>>, <<"4", 420, 370>>, <<"6", 540, 480>>,
    <<"10", 750, 660>>, <<"16", 1000, 880>>, <<"25", 1330, 1170>>, <<"35", 1640, 1440>>,
    <<"50", 1980, 1750>>, <<"70", 2530, 2220>>, <<"95", 3060, 2690>>, <<"120", 3540, 3120>>,
    <<"150", 4070, 3580>>, <<"185", 4640, 4080>>, <<"240", 5460, 4810>>, <<"300", 6280, 5530>>,
    <<"400", 7320, 6440>>, <<"500", 8460, 7450>>
  >>

xlpe_b2 ==
  <<
    <<"1.5", 220, 195>>, <<"2.5", 300, 270>>, <<"4", 400, 350>>, <<"6", 510, 450>>,
    <<"10", 690, 620>>, <<"16", 910, 820>>, <<"25", 1190, 1070>>, <<"35", 1460, 1310>>,
    <<"50", 1750, 1580>>, <<"70", 2210, 2000>>, <<"95", 2650, 2400>>, <<"120", 3050, 2760>>,
    <<"150", 3490, 3160>>, <<"185", 3950, 3580>>, <<"240", 4620, 4190>>, <<"300", 5280, 4790>>,
    <<"400", 6090, 5530>>, <<"500", 6980, 6350>>
  >>

xlpe_c ==
  <<
    <<"1.5", 240, 220>>, <<"2.5", 330, 300>>, <<"4", 450, 400>>, <<"6", 580, 520>>,
    <<"10", 800, 710>>, <<"16", 1070, 960>>, <<"25", 1380, 1190>>, <<"35", 1710, 1470>>,
    <<"50", 2090, 1790>>, <<"70", 2690, 2290>>, <<"95", 3280, 2780>>, <<"120", 3820, 3220>>,
    <<"150", 4410, 3710>>, <<"185", 5060, 4240>>, <<"240", 5990, 5000>>, <<"300", 6930, 5760>>,
    <<"400", 8120, 6730>>, <<"500", 9420, 7780>>
  >>

xlpe_d1 ==
  <<
    <<"1.5", 280, 220>>, <<"2.5", 360, 290>>, <<"4", 460, 370>>, <<"6", 570, 460>>,
    <<"10", 750, 600>>, <<"16", 970, 770>>, <<"25", 1230, 990>>, <<"35", 1490, 1190>>,
    <<"50", 1760, 1400>>, <<"70", 2180, 1730>>, <<"95", 2590, 2040>>, <<"120", 2950, 2330>>,
    <<"150", 3340, 2630>>, <<"185", 3760, 2950>>, <<"240", 4340, 3400>>, <<"300", 4920, 3840>>,
    <<"400", 5650, 4410>>, <<"500", 6410, 4990>>
  >>

xlpe_d2 ==
  <<
    <<"1.5", 310, 240>>, <<"2.5", 410, 310>>, <<"4", 520, 400>>, <<"6", 650, 500>>,
    <<"10", 850, 660>>, <<"16", 1100, 850>>, <<"25", 1410, 1090>>, <<"35", 1700, 1320>>,
    <<"50", 2020, 1560>>, <<"70", 2510, 1930>>, <<"95", 3000, 2290>>, <<"120", 3430, 2610>>,
    <<"150", 3900, 2960>>, <<"185", 4400, 3330>>, <<"240", 5100, 3850>>, <<"300", 5780, 4360>>,
    <<"400", 6640, 5000>>, <<"500", 7530, 5660>>
  >>

xlpe_e ==
  <<
    <<"1.5", 260, 230>>, <<"2.5", 360, 320>>, <<"4", 490, 420>>, <<"6", 630, 540>>,
    <<"10", 860, 750>>, <<"16", 1150, 1000>>, <<"25", 1490, 1270>>, <<"35", 1850, 1580>>,
    <<"50", 2250, 1920>>, <<"70", 2890, 2460>>, <<"95", 3520, 2980>>, <<"120", 4100, 3460>>,
    <<"150", 4730, 3990>>, <<"185", 5420, 4560>>, <<"240", 6410, 5380>>, <<"300", 7410, 6210>>,
    <<"400", 8680, 7420>>, <<"500", 10080, 8870>>
  >>

xlpe_f ==
  <<
    <<"1.5", 290, 250>>, <<"2.5", 400, 350>>, <<"4", 550, 470>>, <<"6", 710, 600>>,
    <<"10", 960, 830>>, <<"16", 1280, 1110>>, <<"25", 1660, 1410>>, <<"35", 2060, 1760>>,
    <<"50", 2510, 2140>>, <<"70", 3230, 2740>>, <<"95", 3930, 3320>>, <<"120", 4580, 3860>>,
    <<"150", 5290, 4450>>, <<"185", 6060, 5090>>, <<"240", 7170, 6010>>, <<"300", 8290, 6940>>,
    <<"400", 9710, 8280>>, <<"500", 11270, 9900>>
  >>

(* a loop that stops before the last row of an array *)
insert_short(rows, insulation, method) ==
    {<< <<rows[i][1], insulation, method>>, <<rows[i][2], rows[i][3]>> >> :
        i \in 1..(Len(rows) - 1)}

(* one table.insert per row: key (size, insulation, method), value (c2, c3) *)
insert(rows, insulation, method) ==
    {<< <<rows[i][1], insulation, method>>, <<rows[i][2], rows[i][3]>> >> :
        i \in DOMAIN rows}

table_entries ==
    insert(pvc_a1, "PVC", "A1") \cup insert(pvc_a2, "PVC", "A2") \cup
    insert(pvc_b1, "PVC", "B1") \cup insert(pvc_b2, "PVC", "B2") \cup
    insert(pvc_c, "PVC", "C") \cup
    insert(pvc_d1, "PVC", "D1") \cup insert(pvc_d2, "PVC", "D2") \cup
    insert(pvc_e, "PVC", "E") \cup insert(pvc_f, "PVC", "F") \cup
    insert(xlpe_a1, "XLPE", "A1") \cup insert(xlpe_a2, "XLPE", "A2") \cup
    insert(xlpe_b1, "XLPE", "B1") \cup insert(xlpe_b2, "XLPE", "B2") \cup
    insert(xlpe_c, "XLPE", "C") \cup
    insert(xlpe_d1, "XLPE", "D1") \cup insert(xlpe_d2, "XLPE", "D2") \cup
    insert(xlpe_e, "XLPE", "E") \cup insert(xlpe_f, "XLPE", "F")

get_allowable_current_table ==
    [k \in {e[1] : e \in table_entries} |->
        (CHOOSE e \in table_entries : e[1] = k)[2]]

----------------------------------------------------------------------------
(* get_cable_outer_diameter: the stored diameters, in tenths of a millimetre *)

tfr_cv_1c ==
  HashMap(<<
    <<"1.5", 63>>, <<"2.5", 67>>, <<"4", 72>>, <<"6", 78>>, <<"10", 94>>, <<"16", 100>>,
    <<"25", 120>>, <<"35", 130>>, <<"50", 145>>, <<"70", 160>>, <<"95", 185>>, <<"120", 200>>,
    <<"150", 220>>, <<"185", 240>>, <<"240", 270>>, <<"300", 300>>, <<"400", 340>>, <<"500", 370>>
  >>)

tfr_cv_2c ==
  HashMap(<<
    <<"1.5", 110>>, <<"2.5", 120>>, <<"4", 130>>, <<"6", 140>>, <<"10", 180>>, <<"16", 210>>,
    <<"25", 250>>, <<"35", 290>>, <<"50", 340>>, <<"70", 390>>, <<"95", 440>>, <<"120", 500>>,
    <<"150", 550>>, <<"185", 610>>, <<"240", 670>>, <<"300", 750>>
  >>)

hfix_1c ==
  HashMap(<<
    <<"1.5", 33>>, <<"2.5", 40>>, <<"4", 46>>, <<"6", 52>>, <<"10", 65>>, <<"16", 80>>,
    <<"25", 101>>, <<"35", 113>>, <<"50", 132>>, <<"70", 155>>, <<"95", 180>>, <<"120", 200>>,
    <<"150", 225>>, <<"185", 250>>, <<"240", 285>>, <<"300", 320>>
  >>)

cv_1c ==
  HashMap(<<
    <<"1.5", 60>>, <<"2.5", 64>>, <<"4", 69>>, <<"6", 75>>, <<"10", 90>>, <<"16", 96>>,
    <<"25", 115>>, <<"35", 125>>, <<"50", 140>>, <<"70", 155>>, <<"95", 180>>, <<"120", 195>>,
    <<"150", 215>>, <<"185", 235>>, <<"240", 265>>, <<"300", 295>>, <<"400", 330>>, <<"500", 360>>
  >>)

cv_2c ==
  HashMap(<<
    <<"1.5", 105>>, <<"2.5", 115>>, <<"4", 125>>, <<"6", 135>>, <<"10", 170>>, <<"16", 200>>,
    <<"25", 240>>, <<"35", 280>>, <<"50", 330>>, <<"70", 380>>, <<"95", 430>>, <<"120", 490>>,
    <<"150", 540>>, <<"185", 600>>, <<"240", 660>>, <<"300", 740>>
  >>)

fr_cv_1c ==
  HashMap(<<
    <<"1.5", 68>>, <<"2.5", 72>>, <<"4", 77>>, <<"6", 83>>, <<"10", 100>>, <<"16", 106>>,
    <<"25", 126>>, <<"35", 136>>, <<"50", 151>>, <<"70", 166>>, <<"95", 191>>, <<"120", 206>>,
    <<"150", 226>>, <<"185", 246>>, <<"240", 276>>, <<"300", 306>>, <<"400", 346>>, <<"500", 376>>
  >>)

tfr_8_1c ==
  HashMap(<<
    <<"1.5", 65>>, <<"2.5", 69>>, <<"4", 74>>, <<"6", 80>>, <<"10", 96>>, <<"16", 102>>,
    <<"25", 122>>, <<"35", 132>>, <<"50", 147>>, <<"70", 162>>, <<"95", 187>>, <<"120", 202>>,
    <<"150", 222>>, <<"185", 242>>, <<"240", 272>>, <<"300", 302>>
  >>)
(* map.get(size).copied() *)
copied(map, size) ==
    IF size \in DOMAIN map THEN Some(Tenths(map[size])) ELSE None

(* a derived arm that returns the base entry without its multiplier *)
mapped_unscaled(map, size, hundredths) == copied(map, size)

(* map.get(size).map(|d| d * factor), the factor in hundredths *)
mapped(map, size, hundredths) ==
    IF size \in DOMAIN map
    THEN Some(Times(Tenths(map[size]), hundredths))
    ELSE None

(* a lookup that lacks the ("HFIX", _) => None arm *)
hfix_any_cores(size, cores) == copied(hfix_1c, size)

(* the two HFIX arms: HFIX exists as a single-core wire only *)
hfix_outer_diameter(size, cores) ==
    IF cores = "1C" THEN copied(hfix_1c, size) ELSE None

(* match (cable_type, cores): the arms in source order, the first match wins *)
get_cable_outer_diameter(cable_type, size, cores) ==
        IF cable_type = "HFIX" THEN hfix_outer_diameter(size, cores)
        ELSE IF cable_type = "TFR-CV" THEN
            IF cores = "1C" THEN copied(tfr_cv_1c, size)
            ELSE IF cores = "2C" THEN copied(tfr_cv_2c, size)
            ELSE IF cores = "3C" THEN mapped(tfr_cv_2c, size, 115)
            ELSE IF cores = "4C" THEN mapped(tfr_cv_2c, size, 125)
            ELSE None
        ELSE IF cable_type = "CV" THEN
            IF cores = "1C" THEN copied(cv_1c, size)
            ELSE IF cores = "2C" THEN copied(cv_2c, size)
            ELSE IF cores = "3C" THEN mapped(cv_2c, size, 115)
            ELSE IF cores = "4C" THEN mapped(cv_2c, size, 125)
            ELSE None
        ELSE IF cable_type = "FR-CV" THEN
            IF cores = "1C" THEN copied(fr_cv_1c, size)
            ELSE IF cores = "2C" THEN mapped(fr_cv_1c, size, 165)
            ELSE IF cores = "3C" THEN mapped(fr_cv_1c, size, 190)
            ELSE IF cores = "4C" THEN mapped(fr_cv_1c, size, 210)
            ELSE None
        ELSE IF cable_type = "TFR-8" THEN
            IF cores = "1C" THEN copied(tfr_8_1c, size)
            ELSE IF cores = "2C" THEN mapped(tfr_8_1c, size, 165)
            ELSE IF cores = "3C" THEN mapped(tfr_8_1c, size, 190)
            ELSE IF cores = "4C" THEN mapped(tfr_8_1c, size, 210)
            ELSE None
        ELSE None

(* calculate_cable_area: pi * (d / 2)^2, in units of pi/160000 mm^2 *)
calculate_cable_area(outer_diameter) == outer_diameter * outer_diameter

----------------------------------------------------------------------------
(* Conduits *)

(* get_conduit_data: (name, inner diameter in tenths of a millimetre) *)
get_conduit_data ==
    << <<"C16 (16mm)", 158>>, <<"C22 (22mm)", 210>>, <<"C28 (28mm)", 266>>,
       <<"C36 (36mm)", 350>>, <<"C42 (42mm)", 410>>, <<"C54 (54mm)", 530>>,
       <<"C70 (70mm)", 690>>, <<"C82 (82mm)", 800>>, <<"C92 (92mm)", 890>>,
       <<"C104 (104mm)", 1010>> >>

(* the label returned when no conduit of the catalogue suffices *)
LargerConduitLabel == "C104+ (review needed)"

(* conduit_area = PI * (inner_diameter / 2.0).powi(2) *)
conduit_area(inner_diameter) ==
    Tenths(inner_diameter) * Tenths(inner_diameter)

(* a capacity that forgets max_fill_rate *)
available_area_no_cap(inner_diameter) == conduit_area(inner_diameter)

(* available_area = conduit_area * max_fill_rate, max_fill_rate = 0.33.      *)
(* Every inner diameter is a whole number of tenths, so conduit_area is a    *)
(* multiple of 400 and the division is exact.                                *)
available_area(inner_diameter) == (conduit_area(inner_diameter) \div 100) * 33

(* a fill taken against the 33% capacity instead of the conduit's area *)
actual_fill_of_capacity(total_area, inner_diameter) ==
    [num |-> total_area, den |-> available_area(inner_diameter)]

(* (total_area / conduit_area) * 100.0, kept as the exact ratio *)
actual_fill(total_area, inner_diameter) ==
    [num |-> total_area, den |-> conduit_area(inner_diameter)]

(* the literal 100.0 as a ratio *)
FullFill == [num |-> 400, den |-> 400]

(* the for loop from entry i on, and the value after the loop *)
RECURSIVE conduit_loop(_, _, _)
conduit_loop(conduits, i, total_area) ==
    IF i > Len(conduits) THEN <<LargerConduitLabel, FullFill>>
    ELSE IF available_area(conduits[i][2]) >= total_area
         THEN <<conduits[i][1], actual_fill(total_area, conduits[i][2])>>
         ELSE conduit_loop(conduits, i + 1, total_area)

(* a loop that stops one entry short of the end of the catalogue *)
recommend_conduit_skip_last(total_area) ==
    conduit_loop(SubSeq(get_conduit_data, 1, Len(get_conduit_data) - 1), 1,
                 total_area)

recommend_conduit(total_area) == conduit_loop(get_conduit_data, 1, total_area)

----------------------------------------------------------------------------
(* Derating *)

(* a default arm that answers XLPE *)
get_insulation_type_xlpe_default(cable_type) == "XLPE"

get_insulation_type(cable_type) ==
    IF cable_type = "HFIX" THEN "XLPE"
    ELSE IF cable_type \in {"CV", "TFR-CV", "FR-CV", "TFR-8"} THEN "XLPE"
    ELSE "PVC"

(* a table that goes on falling beyond 20 circuits *)
get_grouping_factor_extrapolated(num_circuits) ==
    IF num_circuits \in {0, 1} THEN 100
    ELSE IF num_circuits = 2 THEN 80
    ELSE IF num_circuits = 3 THEN 70
    ELSE IF num_circuits = 4 THEN 65
    ELSE IF num_circuits = 5 THEN 60
    ELSE IF num_circuits = 6 THEN 57
    ELSE IF num_circuits = 7 THEN 54
    ELSE IF num_circuits = 8 THEN 52
    ELSE IF num_circuits = 9 THEN 50
    ELSE IF num_circuits \in 10..12 THEN 45
    ELSE IF num_circuits \in 13..16 THEN 41
    ELSE IF num_circuits \in 17..20 THEN 38
    ELSE 35

(* get_grouping_factor, in hundredths *)
get_grouping_factor(num_circuits) ==
    IF num_circuits \in {0, 1} THEN 100
    ELSE IF num_circuits = 2 THEN 80
    ELSE IF num_circuits = 3 THEN 70
    ELSE IF num_circuits = 4 THEN 65
    ELSE IF num_circuits = 5 THEN 60
    ELSE IF num_circuits = 6 THEN 57
    ELSE IF num_circuits = 7 THEN 54
    ELSE IF num_circuits = 8 THEN 52
    ELSE IF num_circuits = 9 THEN 50
    ELSE IF num_circuits \in 10..12 THEN 45
    ELSE IF num_circuits \in 13..16 THEN 41
    ELSE IF num_circuits \in 17..20 THEN 38
    ELSE 38

get_install_method_description(method) ==
    IF method = "A1" THEN "conduit in insulated wall (insulated wire / single-core)"
    ELSE IF method = "A2" THEN "conduit in insulated wall (multi-core)"
    ELSE IF method = "B1" THEN "conduit on wall (insulated wire / single-core)"
    ELSE IF method = "B2" THEN "conduit on wall (multi-core)"
    ELSE IF method = "C" THEN "clipped direct to wall or ceiling (in air)"
    ELSE IF method = "D1" THEN "buried duct"
    ELSE IF method = "D2" THEN "buried direct"
    ELSE IF method = "E" THEN "cable tray (perforated, single-core)"
    ELSE IF method = "F" THEN "cable tray (perforated, multi-core)"
    ELSE "other"

----------------------------------------------------------------------------
(* calculate *)

(* the two messages of `.ok_or(...)?`, by the lookup that failed *)
UnsupportedCableSpec == "unsupported cable spec"
UnsupportedAmpacity == "allowable-current data not found"

(* get_cable_sizes: the catalogue of conductor sizes *)
get_cable_sizes ==
    <<"1.5", "2.5", "4", "6", "10", "16", "25", "35", "50",
      "70", "95", "120", "150", "185", "240", "300", "400", "500">>

(* size.parse::<f64>().unwrap_or(0.0), in tenths of mm^2: the decimal value *)
(* of the strings the model feeds it, 0 for a string that is no number      *)
parse_f64 ==
    HashMap(<< <<"1.5", 15>>, <<"2.5", 25>>, <<"4", 40>>, <<"6", 60>>,
               <<"10", 100>>, <<"16", 160>>, <<"25", 250>>, <<"35", 350>>,
               <<"50", 500>>, <<"70", 700>>, <<"95", 950>>, <<"120", 1200>>,
               <<"150", 1500>>, <<"185", 1850>>, <<"240", 2400>>,
               <<"300", 3000>>, <<"400", 4000>>, <<"500", 5000>>,
               <<"630", 6300>> >>)

parse_or_zero(size) == IF size \in DOMAIN parse_f64 THEN parse_f64[size] ELSE 0

(* a conductor area that leaves the quantity out *)
conductor_area_of_one_run(data) == parse_or_zero(data.size)

(* conductor_area = parse(size) * quantity, in tenths of mm^2 *)
conductor_area_of(data) == parse_or_zero(data.size) * data.quantity

(* no step-down: the ground wire takes the size of the main conductor *)
ground_size_of_main(size) == size

(* the ground-wire size for a main conductor size *)
ground_size(size) ==
    IF size \in {"1.5", "2.5"} THEN "1.5"
    ELSE IF size \in {"4", "6"} THEN "2.5"
    ELSE IF size \in {"10", "16"} THEN "6"
    ELSE IF size \in {"25", "35"} THEN "16"
    ELSE IF size \in {"50", "70"} THEN "25"
    ELSE IF size \in {"95", "120"} THEN "35"
    ELSE IF size \in {"150", "185"} THEN "70"
    ELSE "95"

(* what `if data.ground_wire == "HFIX" { ... }` adds to total_area *)
ground_wire_area(data) ==
    IF data.ground_wire = "HFIX"
    THEN LET ground_od ==
                 get_cable_outer_diameter("HFIX", ground_size(data.size), "1C")
         IN  IF ground_od # None THEN calculate_cable_area(ground_od[1]) ELSE 0
    ELSE 0

(* a ground wire added to every cable run *)
total_area_ground_per_run(data, single_cable_area) ==
    (single_cable_area + ground_wire_area(data)) * data.quantity

(* total_area after the ground-wire block *)
total_area_of(data, single_cable_area) ==
    single_cable_area * data.quantity + ground_wire_area(data)

(* a method always inferred from the core count *)
install_method_by_cores(data) == IF data.cores = "1C" THEN "B1" ELSE "B2"

(* the installation method used for the lookup and the description *)
install_method_of(data) ==
    IF data.install_method = ""
    THEN IF data.cores = "1C" THEN "B1" ELSE "B2"
    ELSE data.install_method

(* a selection that takes the two-loaded value whatever the system *)
select_loaded_always_two(current_values, system) ==
    <<current_values[1],
      IF system = "3P" THEN "3 loaded (three-phase)"
      ELSE "2 loaded (single-phase)">>

(* (base_current, loaded_label) by voltage system *)
select_loaded(current_values, system) ==
    IF system = "1P" THEN <<current_values[1], "2 loaded (single-phase)">>
    ELSE IF system = "3P" THEN <<current_values[2], "3 loaded (three-phase)">>
    ELSE <<current_values[1], "2 loaded (default)">>

cables_per_circuit(system) == IF system = "1P" THEN 2 ELSE 3

(* quantity: u32.  A u32 is kept as two 16-bit limbs <<high, low>>, so the *)
(* values around 2^32 - 1 stay within the checker's integers.              *)
Limb == 65536

u32(n) == <<n \div Limb, n % Limb>>

(* the number a u32 below 2^31 stands for *)
u32_value(a) == a[1] * Limb + a[2]

(* a + k on u32 for a small k: the wrapped sum, and whether it overflowed *)
u32_add(a, k) ==
    LET low == a[2] + k
        high == a[1] + (low \div Limb)
    IN  [value |-> <<high % Limb, low % Limb>>, overflow |-> high >= Limb]

(* a - k on u32 for a small k: the wrapped difference, and whether it      *)
(* went below zero                                                          *)
u32_sub(a, k) ==
    LET low == a[2] - k
        high == IF low < 0 THEN a[1] - 1 ELSE a[1]
    IN  [value |-> <<(high + Limb) % Limb, (low + Limb) % Limb>>,
         overflow |-> high < 0]

(* a / k on u32, by long division over the limbs *)
u32_div(a, k) ==
    <<a[1] \div k, ((a[1] % k) * Limb + a[2]) \div k>>

(* let num_circuits = if data.cores == "1C" { (quantity + k - 1) / k }      *)
(* else { quantity }: the value of a build without overflow checks, and     *)
(* whether an addition or subtraction left the u32 range on the way         *)
num_circuits_u32(cores, system, quantity) ==
    IF cores = "1C"
    THEN LET sum == u32_add(quantity, cables_per_circuit(system))
             less == u32_sub(sum.value, 1)
         IN  [value |-> u32_div(less.value, cables_per_circuit(system)),
              overflow |-> sum.overflow \/ less.overflow]
    ELSE [value |-> quantity, overflow |-> FALSE]

num_circuits_of(data) ==
    u32_value(num_circuits_u32(data.cores, data.system, u32(data.quantity)).value)

(* get_grouping_factor of a u32: every count above 20 takes the last arm *)
get_grouping_factor_u32(n) ==
    get_grouping_factor(IF n[1] = 0 THEN n[2] ELSE Limb)

(* lines 517-526 as a step of calculate.  An overflowing u32 operation      *)
(* panics in a build with overflow checks (the debug profile) and wraps in  *)
(* one without (the release profile): both outcomes are kept.               *)
group_circuits(cores, system, quantity) ==
    LET n == num_circuits_u32(cores, system, quantity)
        finished == [panicked |-> FALSE,
                     num_circuits |-> n.value,
                     grouping_factor |-> get_grouping_factor_u32(n.value)]
        panic == [panicked |-> TRUE,
                  num_circuits |-> <<0, 0>>,
                  grouping_factor |-> 0]
    IN  IF n.overflow THEN {panic, finished} ELSE {finished}

(* allowable_current = base_current * grouping_factor, in 1/1000 A *)
allowable_current_of(base_current, grouping_factor) ==
    base_current * grouping_factor

(* (x * 10.0).round() / 10.0 of a value in 1/1000 A, in 1/10 A.  The f64   *)
(* product of a table value and a factor is within an ulp of the decimal    *)
(* value, so away from a tie it rounds as the decimal value does; at a tie  *)
(* (x ends in 50) it falls on either side: both neighbours are outcomes.    *)
round_current(x) ==
    IF x % 100 = 50 THEN {x \div 100, x \div 100 + 1} ELSE {(x + 50) \div 100}

(* (x * 100.0).round() / 100.0 of a value in 1/10 mm^2, in 1/100 mm^2 *)
round_conductor_area(x) == x * 10

(* (fill * 10.0).round() / 10.0 of a fill ratio, in 1/10 percent:          *)
(* floor(1000 * num / den + 1/2), with den a multiple of 400; at a tie the  *)
(* f64 value falls on either side, as for round_current                     *)
round_fill(fill) ==
    LET k == fill.den \div 400
        n == 5 * fill.num
    IN  IF (n + k) % (2 * k) = 0
        THEN {(n + k) \div (2 * k) - 1, (n + k) \div (2 * k)}
        ELSE {(n + k) \div (2 * k)}

(* calculate: the outcomes [ret |-> the Result, locals |-> the locals at    *)
(* Ok(..)] of a call; more than one only where a rounding is at a tie       *)
calculate(data) ==
    LET outer_diameter ==
            get_cable_outer_diameter(data.cable_type, data.size, data.cores)
    IN
    IF outer_diameter = None
    THEN {[ret |-> Err(UnsupportedCableSpec), locals |-> NoValue]}
    ELSE
    LET single_cable_area == calculate_cable_area(outer_diameter[1])
        total_area == total_area_of(data, single_cable_area)
        conductor_area == conductor_area_of(data)
        insulation == get_insulation_type(data.cable_type)
        install_method == install_method_of(data)
        current_table == get_allowable_current_table
        key == <<data.size, insulation, install_method>>
    IN
    IF key \notin DOMAIN current_table
    THEN {[ret |-> Err(UnsupportedAmpacity), locals |-> NoValue]}
    ELSE
    LET current_values == current_table[key]
        loaded == select_loaded(current_values, data.system)
        base_current == loaded[1]
        loaded_label == loaded[2]
        num_circuits == num_circuits_of(data)
        grouping_factor == get_grouping_factor(num_circuits)
        allowable_current == allowable_current_of(base_current, grouping_factor)
        conduit == recommend_conduit(total_area)
        install_method_desc ==
            <<get_install_method_description(install_method), loaded_label,
              grouping_factor, num_circuits>>
    IN
    \* total_area stays in area units: its factor pi is irrational, so its
    \* rounding to 1/100 mm^2 has no exact integer form
    {[ret |-> Ok([total_area |-> total_area,
                 conductor_area |-> round_conductor_area(conductor_area),
                 allowable_current |-> rounded_current,
                 recommended_conduit |-> conduit[1],
                 fill_rate |-> rounded_fill,
                 install_method_desc |-> install_method_desc]),
     locals |-> [outer_diameter |-> outer_diameter[1],
                 single_cable_area |-> single_cable_area,
                 total_area |-> total_area,
                 conductor_area |-> conductor_area,
                 insulation |-> insulation,
                 install_method |-> install_method,
                 current_values |-> current_values,
                 base_current |-> base_current,
                 num_circuits |-> num_circuits,
                 grouping_factor |-> grouping_factor,
                 allowable_current |-> allowable_current,
                 fill |-> conduit[2]]] :
        rounded_current \in round_current(allowable_current),
        rounded_fill \in round_fill(conduit[2])}

----------------------------------------------------------------------------
(* Catalogue commands *)

(* get_cable_types: the codes of the catalogue, in order *)
get_cable_types == <<"HFIX", "TFR-CV", "CV", "FR-CV", "TFR-8">>

sizes_standard ==
    <<"1.5", "2.5", "4", "6", "10", "16", "25", "35",
      "50", "70", "95", "120", "150", "185", "240", "300">>

sizes_extended ==
    <<"1.5", "2.5", "4", "6", "10", "16", "25", "35", "50",
      "70", "95", "120", "150", "185", "240", "300", "400", "500">>

methods_single ==
    << <<"A1", "A1: conduit in insulated wall (single-core)">>,
       <<"B1", "B1: conduit on wall (single-core)">>,
       <<"C", "C: clipped direct to wall or ceiling">>,
       <<"D1", "D1: buried duct">>,
       <<"E", "E: cable tray (single-core)">> >>

methods_all ==
    << <<"A1", "A1: conduit in insulated wall (single-core)">>,
       <<"A2", "A2: conduit in insulated wall (multi-core)">>,
       <<"B1", "B1: conduit on wall (single-core)">>,
       <<"B2", "B2: conduit on wall (multi-core)">>,
       <<"C", "C: clipped direct to wall or ceiling">>,
       <<"D1", "D1: buried duct">>,
       <<"D2", "D2: buried direct">>,
       <<"E", "E: cable tray (single-core)">>,
       <<"F", "F: cable tray (multi-core)">> >>

all_cores ==
    << <<"1C", "1C (single)">>, <<"2C", "2C (2-core)">>,
       <<"3C", "3C (3-core)">>, <<"4C", "4C (4-core)">> >>

get_cable_options(cable_type) ==
    IF cable_type = "HFIX" THEN
        [cores |-> << <<"1C", "1C (single)">> >>,
         sizes |-> sizes_standard, install_methods |-> methods_single]
    ELSE IF cable_type \in {"TFR-CV", "CV"} THEN
        [cores |-> all_cores,
         sizes |-> sizes_extended, install_methods |-> methods_all]
    ELSE IF cable_type \in {"FR-CV", "TFR-8"} THEN
        [cores |-> all_cores,
         sizes |-> sizes_standard, install_methods |-> methods_all]
    ELSE [cores |-> <<>>, sizes |-> <<>>, install_methods |-> <<>>]

(* a filter that offers every method to a multi-core cable *)
get_install_methods_for_cores_unfiltered(cores) ==
    IF cores = "1C" THEN methods_single
    ELSE IF cores \in {"2C", "3C", "4C"} THEN methods_all
    ELSE <<>>

get_install_methods_for_cores(cores) ==
    IF cores = "1C" THEN
        << <<"A1", "A1: conduit in insulated wall (single-core)">>,
           <<"B1", "B1: conduit on wall (single-core)">>,
           <<"C", "C: clipped direct to wall or ceiling">>,
           <<"D1", "D1: buried duct">>,
           <<"E", "E: cable tray (single-core)">> >>
    ELSE IF cores \in {"2C", "3C", "4C"} THEN
        << <<"A2", "A2: conduit in insulated wall (multi-core)">>,
           <<"B2", "B2: conduit on wall (multi-core)">>,
           <<"C", "C: clipped direct to wall or ceiling">>,
           <<"D1", "D1: buried duct">>,
           <<"D2", "D2: buried direct">>,
           <<"F", "F: cable tray (multi-core)">> >>
    ELSE <<>>

----------------------------------------------------------------------------
(* The calls the model makes *)

CableTypes == {"HFIX", "TFR-CV", "CV", "FR-CV", "TFR-8", "VV"}
CoreCodes == {"1C", "2C", "3C", "4C", "5C"}
SizeInputs == {get_cable_sizes[i] : i \in DOMAIN get_cable_sizes} \cup {"630"}
Systems == {"1P", "3P", "DC"}
GroundWires == {"NONE", "HFIX"}
MethodCodes == {"A1", "A2", "B1", "B2", "C", "D1", "D2", "E", "F"}
MethodInputs == MethodCodes \cup {"", "G"}
Quantities == 0..MaxQuantity

CableData ==
    [cable_type : CableTypes, cores : CoreCodes, size : SizeInputs,
     quantity : Quantities, system : Systems, ground_wire : GroundWires,
     install_method : MethodInputs]

(* the worked scenario of the specification: HFIX 1.5 1C x 10, three-phase *)
Scenarios ==
    {[cable_type |-> "HFIX", cores |-> "1C", size |-> "1.5", quantity |-> 10,
      system |-> "3P", ground_wire |-> g, install_method |-> ""] :
        g \in GroundWires}

(* u32 quantities: the small ones, and the last ones below 2^32 *)
U32Quantities ==
    {u32(n) : n \in 0..(4 * MaxQuantity)} \cup
    {<<Limb - 1, Limb - 1 - i>> : i \in 0..MaxFromTop} \cup
    {<<Limb \div 2, 0>>}

(* total areas: a coarse grid, and the values around each conduit's capacity *)
TotalAreas ==
    {i * 1000000 : i \in 0..MaxAreaSteps} \cup
    {available_area(get_conduit_data[i][2]) + d :
        i \in DOMAIN get_conduit_data, d \in {-1, 0, 1}}

Calls ==
    {[fn |-> "calculate", arg |-> d] : d \in CableData \cup Scenarios} \cup
    {[fn |-> "recommend_conduit", arg |-> a] : a \in TotalAreas} \cup
    {[fn |-> "get_grouping_factor", arg |-> n] : n \in 0..MaxCircuits} \cup
    {[fn |-> "get_install_methods_for_cores", arg |-> c] : c \in CoreCodes} \cup
    {[fn |-> "get_cable_options", arg |-> t] : t \in CableTypes} \cup
    {[fn |-> "group_circuits",
      arg |-> [cores |-> c, system |-> sy, quantity |-> q]] :
        c \in CoreCodes, sy \in Systems, q \in U32Quantities}

Init ==
    /\ pc = "call"
    /\ call \in Calls
    /\ ret = NoValue
    /\ locals = NoValue

Calculate ==
    /\ pc = "call"
    /\ call.fn = "calculate"
    /\ \E r \in calculate(call.arg) :
           /\ ret' = r.ret
           /\ locals' = r.locals
    /\ pc' = "done"
    /\ UNCHANGED call

RecommendConduit ==
    /\ pc = "call"
    /\ call.fn = "recommend_conduit"
    /\ ret' = recommend_conduit(call.arg)
    /\ pc' = "done"
    /\ UNCHANGED <<call, locals>>

GetGroupingFactor ==
    /\ pc = "call"
    /\ call.fn = "get_grouping_factor"
    /\ ret' = get_grouping_factor(call.arg)
    /\ pc' = "done"
    /\ UNCHANGED <<call, locals>>

GetInstallMethodsForCores ==
    /\ pc = "call"
    /\ call.fn = "get_install_methods_for_cores"
    /\ ret' = get_install_methods_for_cores(call.arg)
    /\ pc' = "done"
    /\ UNCHANGED <<call, locals>>

GetCableOptions ==
    /\ pc = "call"
    /\ call.fn = "get_cable_options"
    /\ ret' = get_cable_options(call.arg)
    /\ pc' = "done"
    /\ UNCHANGED <<call, locals>>

GroupCircuits ==
    /\ pc = "call"
    /\ call.fn = "group_circuits"
    /\ ret' \in group_circuits(call.arg.cores, call.arg.system, call.arg.quantity)
    /\ pc' = "done"
    /\ UNCHANGED <<call, locals>>

Next ==
    \/ Calculate
    \/ RecommendConduit
    \/ GetGroupingFactor
    \/ GetInstallMethodsForCores
    \/ GetCableOptions
    \/ GroupCircuits

Spec == Init /\ [][Next]_vars

----------------------------------------------------------------------------
(* Properties *)

Done(fn) == pc = "done" /\ call.fn = fn
CalcOk == Done("calculate") /\ ret.ok
CalcErr(e) == Done("calculate") /\ ret = Err(e)

(* ceil(n / k), as the least c with c * k >= n *)
Ceil(n, k) == CHOOSE c \in 0..n : c * k >= n /\ \A b \in 0..n : b * k >= n => c <= b

(* the catalogue entry of a conduit name *)
ConduitIndex(name) ==
    CHOOSE i \in DOMAIN get_conduit_data : get_conduit_data[i][1] = name

(* 33% of the cross-section of a conduit of inner diameter k tenths of a   *)
(* millimetre, in area units: 0.33 * (20 k)^2 = 132 k^2                    *)
Capacity33(k) == 132 * k * k

(* the conduit and the total area of a returned call of either function *)
ConduitCall == Done("recommend_conduit") \/ CalcOk
ConduitTotal == IF call.fn = "calculate" THEN locals.total_area ELSE call.arg
ConduitName ==
    IF call.fn = "calculate" THEN ret.value.recommended_conduit ELSE ret[1]
ConduitFill == IF call.fn = "calculate" THEN locals.fill ELSE ret[2]

(* C1: in calculate the circuit count of a single-core cable ("1C") is      *)
(* ceil(quantity / conductorsPerCircuit), with conductorsPerCircuit 2 for   *)
(* system 1-phase, 3 for 3-phase and 2 for any other label; for every other *)
(* core code it is the quantity.                                            *)
C1_CircuitCount ==
    CalcOk =>
        LET d == call.arg
            conductorsPerCircuit == IF d.system = "3P" THEN 3 ELSE 2
        IN  ret.value.install_method_desc[4] =
                IF d.cores = "1C" THEN Ceil(d.quantity, conductorsPerCircuit)
                ELSE d.quantity

(* C2: on success the unrounded allowable current is the ampacity entry of  *)
(* (size, insulation, resolved method) for the system (two-loaded for       *)
(* 1-phase, three-loaded for 3-phase, two-loaded for any other label) times *)
(* the grouping factor of the circuit count, and nothing else; HFIX 1.5 1C  *)
(* x10 three-phase with no method gives B1, XLPE, 4 circuits, 0.65, 20.0 A  *)
(* and 13.0 A.                                                              *)
C2_AllowableCurrent ==
    CalcOk =>
        LET d == call.arg
            method == IF d.install_method # "" THEN d.install_method
                      ELSE IF d.cores = "1C" THEN "B1" ELSE "B2"
            insulation == IF d.cable_type \in {"HFIX", "CV", "TFR-CV", "FR-CV", "TFR-8"}
                          THEN "XLPE" ELSE "PVC"
            pair == get_allowable_current_table[<<d.size, insulation, method>>]
            base == IF d.system = "3P" THEN pair[2] ELSE pair[1]
            circuits == ret.value.install_method_desc[4]
            factor == get_grouping_factor(circuits)
        IN  /\ locals.allowable_current = base * factor
            /\ ret.value.allowable_current * 100 \in
                   (base * factor - 50)..(base * factor + 50)
            /\ ret.value.install_method_desc[3] = factor
            /\ d \in Scenarios =>
                   /\ locals.install_method = "B1"
                   /\ locals.insulation = "XLPE"
                   /\ circuits = 4
                   /\ factor = 65
                   /\ base = 200
                   /\ locals.allowable_current = 13000
                   /\ ret.value.allowable_current = 130

(* the scenario of C2 has run: three-phase, ten single-core runs *)
C2_Witness ==
    /\ CalcOk
    /\ call.arg \in Scenarios
    /\ ret.value.allowable_current = 130

(* C3: whenever recommend_conduit returns a catalogue conduit, 33% of that  *)
(* conduit's cross-section is >= the total area and every conduit of        *)
(* smaller inner diameter has a 33% capacity strictly below the total area; *)
(* the catalogue is strictly ascending by inner diameter.                   *)
C3_SmallestSufficientConduit ==
    /\ \A i, j \in DOMAIN get_conduit_data :
           i < j => get_conduit_data[i][2] < get_conduit_data[j][2]
    /\ (ConduitCall /\ ConduitName # LargerConduitLabel) =>
           /\ \E i \in DOMAIN get_conduit_data : get_conduit_data[i][1] = ConduitName
           /\ LET chosen == get_conduit_data[ConduitIndex(ConduitName)][2]
              IN  /\ Capacity33(chosen) >= ConduitTotal
                  /\ \A j \in DOMAIN get_conduit_data :
                         get_conduit_data[j][2] < chosen =>
                             Capacity33(get_conduit_data[j][2]) < ConduitTotal

(* a conduit in the middle of the catalogue was chosen at exactly its capacity *)
C3_Witness ==
    /\ Done("recommend_conduit")
    /\ ret[1] = "C36 (36mm)"
    /\ call.arg = Capacity33(350)

(* C4: calculate returns the unsupported-cable-spec failure exactly when    *)
(* the outer-diameter lookup is absent (so for HFIX with any core code but  *)
(* "1C", whatever the ampacity lookup would say), the unsupported-ampacity  *)
(* failure exactly when the diameter is present and the ampacity pair of    *)
(* (size, insulation, resolved method) is absent, and a complete result     *)
(* otherwise; a failure carries no partial result and no area is 0 for want *)
(* of a diameter.                                                           *)
C4_OutcomeClassified ==
    Done("calculate") =>
        LET d == call.arg
            diameter == get_cable_outer_diameter(d.cable_type, d.size, d.cores)
            method == IF d.install_method # "" THEN d.install_method
                      ELSE IF d.cores = "1C" THEN "B1" ELSE "B2"
            key == <<d.size, get_insulation_type(d.cable_type), method>>
            pairAbsent == key \notin DOMAIN get_allowable_current_table
        IN  /\ ret = Err(UnsupportedCableSpec) <=> diameter = None
            /\ ret = Err(UnsupportedAmpacity) <=> (diameter # None /\ pairAbsent)
            /\ ret.ok <=> (diameter # None /\ ~pairAbsent)
            /\ (d.cable_type = "HFIX" /\ d.cores # "1C") =>
                   ret = Err(UnsupportedCableSpec)
            /\ ~ret.ok => (DOMAIN ret = {"ok", "err"} /\ locals = NoValue)
            /\ ret.ok =>
                   /\ DOMAIN ret.value =
                          {"total_area", "conductor_area", "allowable_current",
                           "recommended_conduit", "fill_rate", "install_method_desc"}
                   /\ locals.outer_diameter > 0
                   /\ locals.single_cable_area > 0

(* HFIX was asked with two cores and a method the ampacity table lacks too *)
C4_Witness ==
    /\ CalcErr(UnsupportedCableSpec)
    /\ call.arg.cable_type = "HFIX"
    /\ call.arg.cores = "2C"
    /\ call.arg.install_method = "G"

(* C5: recommend_conduit returns the 'needs larger conduit' label, with fill *)
(* percent exactly 100.0, when the total area exceeds 33% of the             *)
(* cross-section of the largest conduit (C104, 101.0 mm) and in no other     *)
(* case, and calculate then still returns a successful result carrying it.   *)
C5_SentinelBeyondLargest ==
    /\ ConduitCall =>
           /\ ConduitName = LargerConduitLabel <=> ConduitTotal > Capacity33(1010)
           /\ ConduitName = LargerConduitLabel =>
                  /\ ConduitFill.num = ConduitFill.den
                  /\ ConduitFill.den > 0
    /\ Done("calculate") =>
           LET d == call.arg
               diameter == get_cable_outer_diameter(d.cable_type, d.size, d.cores)
               ground == IF d.ground_wire = "HFIX"
                         THEN get_cable_outer_diameter("HFIX", ground_size(d.size), "1C")
                         ELSE None
               total == diameter[1] * diameter[1] * d.quantity
                        + (IF ground # None THEN ground[1] * ground[1] ELSE 0)
           IN  (/\ diameter # None
                /\ ret # Err(UnsupportedAmpacity)
                /\ total > Capacity33(1010)) =>
                   /\ ret.ok
                   /\ ret.value.recommended_conduit = LargerConduitLabel
                   /\ ret.value.fill_rate = 1000

(* calculate succeeded with the label and a fill rate of 100.0 *)
C5_Witness ==
    /\ CalcOk
    /\ ret.value.recommended_conduit = LargerConduitLabel
    /\ ret.value.fill_rate = 1000
    /\ locals.total_area > Capacity33(1010)

(* C6: get_grouping_factor is defined for every circuit count, lies in      *)
(* (0, 1], never rises as the count rises, is 1.00 at 0 and at 1, and above *)
(* 20 circuits is the lowest tabulated factor, 0.38 (the value at 17..20).  *)
C6_GroupingFactor ==
    Done("get_grouping_factor") =>
        /\ ret \in 1..100
        /\ \A m \in 0..call.arg : get_grouping_factor(m) >= ret
        /\ call.arg \in {0, 1} => ret = 100
        /\ call.arg \in 17..20 => ret = 38
        /\ call.arg > 20 => ret = 38

(* a count beyond the last bucket was asked *)
C6_Witness ==
    /\ Done("get_grouping_factor")
    /\ call.arg > 20
    /\ ret = 38

(* C7: the method calculate uses for the ampacity lookup and for the        *)
(* description is the caller's install_method verbatim whenever it is not   *)
(* empty (known code or not, fit for the core count or not); when it is     *)
(* empty the method is B1 for cores "1C" and B2 for every other core code.  *)
C7_InstallMethodVerbatim ==
    Done("calculate") =>
        LET d == call.arg
            method == IF d.install_method # "" THEN d.install_method
                      ELSE IF d.cores = "1C" THEN "B1" ELSE "B2"
            key == <<d.size, get_insulation_type(d.cable_type), method>>
        IN  /\ ret.ok =>
                   /\ locals.install_method = method
                   /\ key \in DOMAIN get_allowable_current_table
                   /\ locals.current_values = get_allowable_current_table[key]
                   /\ ret.value.install_method_desc[1] =
                          get_install_method_description(method)
            /\ ret = Err(UnsupportedAmpacity) =>
                   key \notin DOMAIN get_allowable_current_table

(* a multi-core method was given for a single-core cable and was kept *)
C7_Witness ==
    /\ CalcOk
    /\ call.arg.cores = "1C"
    /\ call.arg.install_method = "A2"
    /\ locals.install_method = "A2"

(* C8: on success the unrounded total area is singleCableArea * quantity     *)
(* without a ground wire, and that plus the area of exactly one 1-core HFIX  *)
(* cable of the stepped-down size (once, not per run) with a ground wire     *)
(* whose diameter is found; so total area >= singleCableArea * quantity, and *)
(* the ground wire changes no output but total area, conduit and fill rate.  *)
C8_TotalArea ==
    CalcOk =>
        LET d == call.arg
            diameter == get_cable_outer_diameter(d.cable_type, d.size, d.cores)
            singleCableArea == diameter[1] * diameter[1]
            ground == get_cable_outer_diameter("HFIX", ground_size(d.size), "1C")
            bare == calculate([d EXCEPT !.ground_wire = "NONE"])
        IN  /\ d.ground_wire # "HFIX" =>
                   locals.total_area = singleCableArea * d.quantity
            /\ (d.ground_wire = "HFIX" /\ ground # None) =>
                   locals.total_area =
                       singleCableArea * d.quantity + ground[1] * ground[1]
            /\ locals.total_area >= singleCableArea * d.quantity
            /\ ret.value.total_area = locals.total_area
            /\ \A b \in bare :
                   /\ b.ret.ok
                   /\ b.ret.value.conductor_area = ret.value.conductor_area
                   /\ b.locals.allowable_current = locals.allowable_current
                   /\ b.ret.value.install_method_desc =
                          ret.value.install_method_desc
            /\ ret.value.allowable_current \in
                   {b.ret.value.allowable_current : b \in bare}

(* several runs with a ground wire: the area grew by one ground wire *)
C8_Witness ==
    /\ CalcOk
    /\ call.arg.ground_wire = "HFIX"
    /\ call.arg.quantity >= 2
    /\ locals.total_area > locals.single_cable_area * call.arg.quantity

(* the scenario of C9: an unrecognised cable type, 2.5 mm^2, 1C x 2, *)
(* single-phase, method B1                                           *)
PvcScenario ==
    /\ Done("calculate")
    /\ call.arg.cable_type = "VV"
    /\ call.arg.size = "2.5"
    /\ call.arg.cores = "1C"
    /\ call.arg.quantity = 2
    /\ call.arg.system = "1P"
    /\ call.arg.install_method = "B1"

(* C9 as stated: for a cable type outside {HFIX, CV, TFR-CV, FR-CV, TFR-8}  *)
(* the insulation is PVC and the allowable current is computed from the PVC *)
(* entries: in the scenario the two-loaded value is 24.0 A, the circuit     *)
(* count 1, the grouping factor 1.00 and the current returned 24.0.         *)
C9_PvcCurrentReturned ==
    PvcScenario =>
        /\ ret.ok
        /\ ret.value.allowable_current = 240
        /\ ret.value.install_method_desc[3] = 100
        /\ ret.value.install_method_desc[4] = 1

(* C9 amended: a cable type outside the five resolves to PVC, and the PVC   *)
(* figures of the scenario are 24.0 A two-loaded, 1 circuit, factor 1.00,   *)
(* product 24.0 A; but no outer diameter exists for such a type, so         *)
(* calculate returns the unsupported-cable-spec failure and no current.     *)
C9_PvcTypeUnsupported ==
    (Done("calculate") /\
     call.arg.cable_type \notin {"HFIX", "CV", "TFR-CV", "FR-CV", "TFR-8"}) =>
        /\ get_insulation_type(call.arg.cable_type) = "PVC"
        /\ ret = Err(UnsupportedCableSpec)
        /\ PvcScenario =>
               LET pair == get_allowable_current_table[
                               <<call.arg.size,
                                 get_insulation_type(call.arg.cable_type),
                                 install_method_of(call.arg)>>]
                   base == select_loaded(pair, call.arg.system)[1]
                   circuits == num_circuits_of(call.arg)
               IN  /\ base = 240
                   /\ circuits = 1
                   /\ get_grouping_factor(circuits) = 100
                   /\ round_current(allowable_current_of(
                          base, get_grouping_factor(circuits))) = {240}

(* the scenario has run and returned the failure *)
C9_Witness == PvcScenario /\ ret = Err(UnsupportedCableSpec)

(* the codes of a list of (code, label) pairs *)
Codes(list) == {list[i][1] : i \in DOMAIN list}

C11_ConductorArea ==
    CalcOk =>
        LET d == call.arg
        IN  /\ d.size \in DOMAIN parse_f64
            /\ locals.conductor_area = parse_f64[d.size] * d.quantity
            /\ ret.value.conductor_area = parse_f64[d.size] * d.quantity * 10
            /\ (d.size = "2.5" /\ d.quantity = 4) =>
                   /\ locals.conductor_area = 100
                   /\ ret.value.conductor_area = 1000
            /\ (d.size = "1.5" /\ d.quantity = 3) => locals.conductor_area = 45
            /\ (d.size = "500" /\ d.quantity = 5) => locals.conductor_area = 25000

(* four 4-core runs of 2.5 mm^2 with a ground wire: 10 mm^2 of conductor *)
C11_Witness ==
    /\ CalcOk
    /\ call.arg.size = "2.5"
    /\ call.arg.quantity = 4
    /\ call.arg.cores = "4C"
    /\ call.arg.ground_wire = "HFIX"
    /\ ret.value.conductor_area = 1000

(* C12: the ampacity table has an entry for every one of the 18 catalogue   *)
(* sizes, both insulation classes and all nine method codes; so whenever    *)
(* the outer-diameter lookup succeeds and the method is empty or one of the *)
(* nine codes, calculate does not return the unsupported-ampacity failure,  *)
(* which occurs only for an explicit method outside the nine codes.         *)
C12_AmpacityTableComplete ==
    Done("calculate") =>
        LET d == call.arg
            diameter == get_cable_outer_diameter(d.cable_type, d.size, d.cores)
            catalogue == {get_cable_sizes[i] : i \in DOMAIN get_cable_sizes}
        IN  /\ Len(get_cable_sizes) = 18
            /\ Cardinality(catalogue) = 18
            /\ d.size \in catalogue =>
                   \A insulation \in {"PVC", "XLPE"}, method \in MethodCodes :
                       <<d.size, insulation, method>> \in
                           DOMAIN get_allowable_current_table
            /\ (diameter # None /\ d.install_method \in MethodCodes \cup {""}) =>
                   ret.ok
            /\ ret = Err(UnsupportedAmpacity) =>
                   /\ d.install_method # ""
                   /\ d.install_method \notin MethodCodes
                   /\ diameter # None

(* the largest size under the buried-direct method found its entry *)
C12_Witness ==
    /\ CalcOk
    /\ call.arg.size = "500"
    /\ call.arg.install_method = "D2"
    /\ locals.current_values = <<7530, 5660>>

(* C13: whenever recommend_conduit returns a catalogue conduit, the fill    *)
(* percent is totalArea / (area of that conduit) * 100, against the         *)
(* conduit's actual area and not the 33% cap, and so lies in [0, 33]; the   *)
(* fill rate of a successful calculate is above 33 only with the 'needs     *)
(* larger conduit' label, and is then exactly 100.0.                        *)
C13_FillAgainstActualArea ==
    /\ (ConduitCall /\ ConduitName # LargerConduitLabel) =>
           LET inner == get_conduit_data[ConduitIndex(ConduitName)][2]
               tenthSquares == inner * inner
           IN  /\ ConduitFill.num = ConduitTotal
               /\ ConduitFill.den = 400 * tenthSquares
               /\ ConduitFill.num >= 0
               /\ ConduitFill.num <= 132 * tenthSquares
               /\ call.fn = "calculate" =>
                      /\ ret.value.fill_rate \in 0..330
                      /\ 2 * ret.value.fill_rate * tenthSquares
                             - 5 * ConduitFill.num \in (0 - tenthSquares)..tenthSquares
    /\ CalcOk =>
           /\ ret.value.fill_rate > 330 =>
                  /\ ret.value.recommended_conduit = LargerConduitLabel
                  /\ ret.value.fill_rate = 1000
           /\ ret.value.recommended_conduit = LargerConduitLabel =>
                  ret.value.fill_rate = 1000

(* a conduit filled to more than 30% of its own area, below the cap *)
C13_Witness ==
    /\ CalcOk
    /\ ret.value.recommended_conduit = "C82 (82mm)"
    /\ ret.value.fill_rate > 300
    /\ ret.value.fill_rate <= 330

(* the table a (type, cores) arm reads and its multiplier in hundredths,    *)
(* 100 for a stored diameter                                                *)
ArmOf(cable_type, cores) ==
    IF cable_type = "HFIX" /\ cores = "1C" THEN <<hfix_1c, 100>>
    ELSE IF cable_type = "TFR-CV" /\ cores = "1C" THEN <<tfr_cv_1c, 100>>
    ELSE IF cable_type = "TFR-CV" /\ cores = "2C" THEN <<tfr_cv_2c, 100>>
    ELSE IF cable_type = "TFR-CV" /\ cores = "3C" THEN <<tfr_cv_2c, 115>>
    ELSE IF cable_type = "TFR-CV" /\ cores = "4C" THEN <<tfr_cv_2c, 125>>
    ELSE IF cable_type = "CV" /\ cores = "1C" THEN <<cv_1c, 100>>
    ELSE IF cable_type = "CV" /\ cores = "2C" THEN <<cv_2c, 100>>
    ELSE IF cable_type = "CV" /\ cores = "3C" THEN <<cv_2c, 115>>
    ELSE IF cable_type = "CV" /\ cores = "4C" THEN <<cv_2c, 125>>
    ELSE IF cable_type = "FR-CV" /\ cores = "1C" THEN <<fr_cv_1c, 100>>
    ELSE IF cable_type = "FR-CV" /\ cores = "2C" THEN <<fr_cv_1c, 165>>
    ELSE IF cable_type = "FR-CV" /\ cores = "3C" THEN <<fr_cv_1c, 190>>
    ELSE IF cable_type = "FR-CV" /\ cores = "4C" THEN <<fr_cv_1c, 210>>
    ELSE IF cable_type = "TFR-8" /\ cores = "1C" THEN <<tfr_8_1c, 100>>
    ELSE IF cable_type = "TFR-8" /\ cores = "2C" THEN <<tfr_8_1c, 165>>
    ELSE IF cable_type = "TFR-8" /\ cores = "3C" THEN <<tfr_8_1c, 190>>
    ELSE IF cable_type = "TFR-8" /\ cores = "4C" THEN <<tfr_8_1c, 210>>
    ELSE <<HashMap(<<>>), 100>>

NextCores(cores) ==
    IF cores = "1C" THEN "2C" ELSE IF cores = "2C" THEN "3C" ELSE "4C"

(* C14: the diameter calculate works with is the stored entry for 1C (all   *)
(* five types) and 2C (TFR-CV, CV), and otherwise the same-size base entry  *)
(* times the family's multiplier (1.15, 1.25 on the 2C base for TFR-CV and  *)
(* CV; 1.65, 1.9, 2.1 on the 1C base for FR-CV and TFR-8); a diameter is    *)
(* present exactly when its base entry is; and for the type and size of the *)
(* call the diameter strictly increases from each core count to the next.   *)
C14_DerivedDiameters ==
    Done("calculate") =>
        LET d == call.arg
            arm == ArmOf(d.cable_type, d.cores)
            present == ret # Err(UnsupportedCableSpec)
        IN  /\ present <=> d.size \in DOMAIN arm[1]
            /\ CalcOk =>
                   /\ locals.outer_diameter * 100 = 20 * arm[1][d.size] * arm[2]
                   /\ locals.outer_diameter > 0
                   /\ (d.cores \in {"1C", "2C", "3C"}) =>
                          LET larger == ArmOf(d.cable_type, NextCores(d.cores))
                          IN  d.size \in DOMAIN larger[1] =>
                                  locals.outer_diameter * 100
                                      < 20 * larger[1][d.size] * larger[2]
                   /\ (d.cable_type = "TFR-CV" /\ d.size = "300") =>
                          /\ d.cores = "2C" => locals.outer_diameter = 15000
                          /\ d.cores = "3C" => locals.outer_diameter = 17250
                          /\ d.cores = "4C" => locals.outer_diameter = 18750

(* a derived diameter: FR-CV 3C is 1.9 times the 1C entry of the same size *)
C14_Witness ==
    /\ CalcOk
    /\ call.arg.cable_type = "FR-CV"
    /\ call.arg.cores = "3C"
    /\ call.arg.size = "16"
    /\ locals.outer_diameter * 10 = 20 * fr_cv_1c["16"] * 19

(* the area calculate added on top of the cable runs *)
AddedArea == locals.total_area - locals.single_cable_area * call.arg.quantity

(* the area of a single-core HFIX wire of size g *)
HfixArea(g) == (20 * hfix_1c[g]) * (20 * hfix_1c[g])

GroundCall ==
    /\ CalcOk
    /\ call.arg.ground_wire = "HFIX"
    /\ call.arg.size \in {get_cable_sizes[i] : i \in DOMAIN get_cable_sizes}

CeilU32(q, k) ==
    LET whole == u32_div(q, k)
        rest == (((q[1] % k) * Limb + q[2]) % k)
    IN  IF rest = 0 THEN whole ELSE u32_add(whole, 1).value

(* a <= b on u32 *)
LeU32(a, b) == a[1] < b[1] \/ (a[1] = b[1] /\ a[2] <= b[2])

(* C16: for every u32 quantity of a single-core cable the ceiling division  *)
(* (quantity + k - 1) / k, k in {2, 3}, neither overflows nor wraps: the    *)
(* step finishes, the circuit count is ceil(quantity / k), and no smaller   *)
(* quantity has a larger circuit count or a smaller grouping factor.        *)
C16_CeilingNeverWraps ==
    (Done("group_circuits") /\ call.arg.cores = "1C") =>
        LET q == call.arg.quantity
            k == cables_per_circuit(call.arg.system)
        IN  /\ ~ret.panicked
            /\ ret.num_circuits = CeilU32(q, k)
            /\ \A smaller \in U32Quantities :
                   LeU32(smaller, q) =>
                       /\ LeU32(CeilU32(smaller, k), ret.num_circuits)
                       /\ get_grouping_factor_u32(CeilU32(smaller, k))
                              >= ret.grouping_factor

(* a calculate call put together from the option lists of its cable type *)
OfferedCall ==
    /\ Done("calculate")
    /\ call.arg.cable_type \in {get_cable_types[i] : i \in DOMAIN get_cable_types}
    /\ LET options == get_cable_options(call.arg.cable_type)
       IN  /\ call.arg.cores \in Codes(options.cores)
           /\ call.arg.size \in {options.sizes[i] : i \in DOMAIN options.sizes}
           /\ call.arg.install_method \in Codes(options.install_methods)
    /\ call.arg.quantity >= 1
    /\ call.arg.system \in {"1P", "3P"}
    /\ call.arg.ground_wire \in GroundWires

(* C17: every calculate call whose cable type is one of get_cable_types and *)
(* whose core code, size and installation method come from                  *)
(* get_cable_options of that type, with a quantity of at least 1, either    *)
(* voltage system and either ground-wire setting, returns a result.         *)
C17_OfferedOptionsSucceed == OfferedCall => ret.ok

====
